---- MODULE Spec2Model ----
(***************************************************************************)
(* String-to-primitive dispatch kernels of datafusion/functions/src/       *)
(* datetime/common.rs: handle (unary kernel), handle_multiple (fallback    *)
(* kernel), strings_to_primitive_function, handle_array_op and             *)
(* unary_string_to_primitive_function; the operand check                   *)
(* validate_data_types; and the format-aware temporal parser.              *)
(*                                                                         *)
(* A call is a run of the state machine: Init fixes the kernel and its     *)
(* operand list, the entry action dispatches on operand 0, and one action  *)
(* runs per row closure (array paths) or per loop iteration (scalar path). *)
(* `first` is the primary array (operand 0 when it is a text Array).  The  *)
(* slots of an auxiliary Array are inputs too: slot pos of an auxiliary is *)
(* read at most once per call, so it is drawn when the row closure reads   *)
(* it.  `aux_reads`, `op_calls` and `op2_calls` log what the latest run of *)
(* a row closure (or of the scalar loop) consulted and called; `op_count`  *)
(* counts the calls of op over the whole kernel call.  Positions and row   *)
(* indices are 0-based as in the source.  `aux_rows` is the row count of   *)
(* the auxiliary Arrays of the call, which need not be that of `first`.    *)
(*                                                                         *)
(* The temporal parser string_to_datetime_formatted and its conversions    *)
(* string_to_timestamp_nanos_formatted / _millis_formatted are kernels of  *)
(* the same machine: `str`, `format` and `timezone` are their inputs and   *)
(* `tried` logs the interpretations of the parsed fields that were         *)
(* attempted, in order, with their outcome.  Time is counted in ticks,     *)
(* three to a day; instants are ticks since the epoch in UTC.              *)
(***************************************************************************)
EXTENDS Integers, Sequences, FiniteSets, TLC

VARIABLES kernel, args, first, aux_rows, str, format, timezone, pc, pos, ret, out,
          aux_reads, op_calls, op2_calls, op_count, tried, result

vars == <<kernel, args, first, aux_rows, str, format, timezone, pc, pos, ret, out,
          aux_reads, op_calls, op2_calls, op_count, tried, result>>

\* Bounds of the model.
MaxArgs == 3
MaxRows == 2

\* Texts.  A primary text of handle_multiple is written in one format and a
\* candidate text is a format: text 1 is written in a format no candidate
\* has, text 2 in format 2.  The unary op of handle accepts text 2 only.
UText == {1, 2, 3}
PText == {1, 2}
FText == {2, 3}

\* The three text encodings, and one representative of every other DataType.
TextTypes == {"Utf8", "LargeUtf8", "Utf8View"}
DataTypes == TextTypes \cup {"Int32"}

\* Option<T>
None == <<>>
Some(v) == <<v>>
unwrap(o) == o[1]

\* Result<T>
Ok(v) == [ok |-> TRUE, v |-> v]
Err(e) == [ok |-> FALSE, e |-> e]

\* ColumnarValue::Array / ColumnarValue::Scalar.  A Scalar carries its
\* optional text; a non-text operand carries no text.
ArrayOperand(t) == [shape |-> "Array", data_type |-> t, value |-> None]
ScalarOperand(t, v) == [shape |-> "Scalar", data_type |-> t, value |-> v]

\* The operands drawn for one position: text operands in encoding t, and
\* the non-text ones.
Operands(t, Text) ==
  {ArrayOperand(t), ArrayOperand("Int32"), ScalarOperand("Int32", None)}
    \cup {ScalarOperand(t, v) : v \in {None} \cup {Some(s) : s \in Text}}

\* Row of the primary array as its iterator yields it.
PrimaryCell(Text) == {None} \cup {Some(s) : s \in Text}
\* Slot of an auxiliary array: validity bit and the bytes stored in the slot,
\* which value(i) returns whatever the validity bit says.
AuxCell == [valid : BOOLEAN, value : FText]

\* Operand at 0-based position k.
Operand(as, k) == as[k + 1]

\* ---- errors ----
UnsupportedType(t, p) == [kind |-> "UnsupportedType", data_type |-> t, arg |-> p]
UnsupportedType0(t) == [kind |-> "UnsupportedType", data_type |-> t, arg |-> -1]
UnsupportedIndex(t, i) == [kind |-> "UnsupportedType", data_type |-> t, index |-> i]
ArgumentCount(n) == [kind |-> "ArgumentCount", got |-> n, min |-> 2]
Internal == [kind |-> "Internal"]
Unexpected(t) == [kind |-> "UnexpectedType", data_type |-> t]
ExpectedArray(t) == [kind |-> "ExpectedArray", data_type |-> t]
ParseFailure(x, v) == [kind |-> "ParseFailure", x |-> x, v |-> v]

\* ---- caller-supplied closures ----
\* op of handle: F: Fn(&str) -> Result<Native>
op1(x) == IF x = 2 THEN Ok(10 * x) ELSE Err(ParseFailure(x, 0))
\* op of handle_multiple: F: Fn(&str, &str) -> Result<Native>
op(x, v) == IF x = v THEN Ok(10 * x + v) ELSE Err(ParseFailure(x, v))
\* op2 of handle_multiple: M: Fn(Native) -> Native
op2(n) == n \div 2

\* ---- call results ----
Pending == [tag |-> "Pending"]
OkArray(col) == [tag |-> "Ok", shape |-> "Array", column |-> col]
OkScalar(v) == [tag |-> "Ok", shape |-> "Scalar", value |-> v]
Error(e) == [tag |-> "Err", err |-> e]
\* Ok(DateTime<T>) of string_to_datetime_formatted, Ok(i64) of the conversions
OkDateTime(dt) == [tag |-> "Ok", shape |-> "DateTime", value |-> dt]
OkNative(n) == [tag |-> "Ok", shape |-> "Native", value |-> n]
\* Ok(()) of validate_data_types
OkUnit == [tag |-> "Ok", shape |-> "Unit"]
\* value(i) of an arrow array asserts i < len: the call panics
Panic == [tag |-> "Panic"]

\* Mutant of try_as_str: every scalar is taken for a text scalar.
try_as_str_any(s) == Some(s.value)
\* ScalarValue::try_as_str: Some(Option<&str>) for the text scalars, else None
try_as_str(s) == IF s.data_type \in TextTypes THEN Some(s.value) ELSE None

\* Option<Result<T>>::transpose
transpose(val) ==
  IF val = None THEN Ok(None)
  ELSE IF unwrap(val).ok THEN Ok(Some(unwrap(val).v))
  ELSE unwrap(val)

\* ---- handle_multiple: validation of the column types (array path) ----
\* for (pos, arg) in args.iter().enumerate(): the error of the first position
\* whose data_type is not a text encoding, None if there is none.
\* Mutant of validate_column_types: only the operand at p is validated.
validate_first_only(as, p) ==
  IF Operand(as, p).data_type \in TextTypes THEN None
  ELSE Some(UnsupportedType(Operand(as, p).data_type, p))
RECURSIVE validate_column_types(_, _)
validate_column_types(as, p) ==
  IF p >= Len(as) THEN None
  ELSE IF Operand(as, p).data_type \in TextTypes THEN validate_column_types(as, p + 1)
  ELSE Some(UnsupportedType(Operand(as, p).data_type, p))

\* ---- validate_data_types ----
\* Mutant of validate_data_types: the index reported is that of enumerate().
validate_data_types_enumerate_index(as, idx, seen) ==
  LET bad == {i \in idx..(Len(as) - 2) : Operand(as, i + 1).data_type \notin TextTypes} IN
  IF bad = {} THEN [r |-> Ok(<<>>), inspected |-> [k \in 1..(Len(as) - 1) |-> k]]
  ELSE LET i == CHOOSE i \in bad : \A j \in bad : i <= j IN
       [r |-> Err(UnsupportedIndex(Operand(as, i + 1).data_type, i)),
        inspected |-> [k \in 1..(i + 1) |-> k]]
\* for (idx, a) in args.iter().skip(1).enumerate(): a is the operand at
\* position idx + 1; `seen` is the sequence of the positions inspected so far
RECURSIVE validate_data_types(_, _, _)
validate_data_types(as, idx, seen) ==
  IF idx + 1 >= Len(as) THEN [r |-> Ok(<<>>), inspected |-> seen]
  ELSE IF Operand(as, idx + 1).data_type \in TextTypes
       THEN validate_data_types(as, idx + 1, Append(seen, idx + 1))
       ELSE [r |-> Err(UnsupportedIndex(Operand(as, idx + 1).data_type, idx + 1)),
             inspected |-> Append(seen, idx + 1)]

\* strings_to_primitive_function up to its call of handle_array_op:
\* None when it goes on to handle_array_op, else the error it returns.
strings_to_primitive_function(as) ==
  IF Len(as) < 2 THEN Some(ArgumentCount(Len(as)))
  ELSE IF Operand(as, 0).shape = "Array"
       THEN IF Operand(as, 0).data_type \in TextTypes THEN None
            ELSE Some(Unexpected(Operand(as, 0).data_type))
       ELSE Some(ExpectedArray(Operand(as, 0).data_type))

\* ---- handle_array_op: the row closure ----
\* `let v = match arg {...}?`: Ok(Some(v)) is the text offered to op,
\* Ok(None) is `continue`, Err(e) leaves the closure through `?`.
array_value(cell) == cell.value
scalar_value(s) ==
  IF try_as_str(s) = None THEN Err(Unexpected(s.data_type))
  ELSE IF unwrap(try_as_str(s)) = None THEN Ok(None)
  ELSE Ok(Some(unwrap(unwrap(try_as_str(s)))))
aux_value(arg, cell) ==
  IF arg.shape = "Array"
  THEN IF arg.data_type \in TextTypes THEN Ok(Some(array_value(cell)))
       ELSE Err(Unexpected(arg.data_type))
  ELSE scalar_value(arg)

\* the auxiliary `arg` is null at the row whose slot is `cell`
aux_is_null(arg, cell) ==
  IF arg.shape = "Array" THEN ~cell.valid ELSE arg.value = None

\* `val` (`ret`) after one attempt r = op(x, v)
attempt(r) == IF r.ok THEN Some(Ok(op2(r.v))) ELSE Some(r)

\* Mutant of op2_called: op2 is applied after a failed attempt too.
op2_called_always(r) == <<IF r.ok THEN r.v ELSE 0>>
\* the arguments of the calls of op2 made for the attempt r = op(x, v)
op2_called(r) == IF r.ok THEN <<r.v>> ELSE <<>>

\* Mutant of break: the loop goes on after a success.
break_never(r) == FALSE
\* `break` after the attempt r
break(r) == r.ok

RowStart == [val |-> None, early |-> None, stop |-> FALSE, panic |-> FALSE,
             reads |-> <<>>, ops |-> <<>>, op2s |-> <<>>]

\* `.value(pos)` is called on the auxiliary at position j with pos outside it
out_of_bounds(j, p) ==
  /\ Operand(args, j).shape = "Array"
  /\ Operand(args, j).data_type \in TextTypes
  /\ p >= aux_rows

\* one iteration of `for arg in args` for the auxiliary at position j
for_arg_body(st, p, x, j, cell) ==
  LET arg == Operand(args, j)
      v == aux_value(arg, cell)
      st1 == [st EXCEPT !.reads = Append(@, [pos |-> p, arg |-> j,
                                             null |-> aux_is_null(arg, cell)])]
  IN IF out_of_bounds(j, p) THEN [st EXCEPT !.panic = TRUE, !.stop = TRUE]
     ELSE IF ~v.ok THEN [st1 EXCEPT !.early = Some(v.e), !.stop = TRUE]
     ELSE IF v.v = None THEN st1
     ELSE LET r == op(x, unwrap(v.v))
          IN [st1 EXCEPT !.ops = Append(@, [pos |-> p, arg |-> j, x |-> x,
                                            v |-> unwrap(v.v), r |-> r]),
                         !.val = attempt(r),
                         !.op2s = @ \o op2_called(r),
                         !.stop = break(r)]

RECURSIVE for_arg_in_args(_, _, _, _, _)
for_arg_in_args(st, p, x, j, cells) ==
  IF j >= Len(args) \/ st.stop THEN st
  ELSE for_arg_in_args(for_arg_body(st, p, x, j, cells[j]), p, x, j + 1, cells)

\* Mutant of row_closure: a null primary row is treated as the empty text.
row_closure_null_as_empty(p, x, cells) ==
  for_arg_in_args(RowStart, p, IF x = None THEN 0 ELSE unwrap(x), 1, cells)
\* the closure of handle_array_op for row p whose primary cell is x
row_closure(p, x, cells) ==
  IF x = None THEN RowStart
  ELSE for_arg_in_args(RowStart, p, unwrap(x), 1, cells)

\* Mutant of row_result: a row whose candidates all fail becomes a null row.
row_result_nulls_failures(st) ==
  IF st.early # None THEN Err(unwrap(st.early))
  ELSE IF st.val # None /\ ~unwrap(st.val).ok THEN Ok(None)
  ELSE transpose(st.val)
\* what the closure returns: Result<Option<Native>>
row_result(st) == IF st.early # None THEN Err(unwrap(st.early)) ELSE transpose(st.val)

\* ---- unary_string_to_primitive_function: the row closure ----
\* Mutant of unary_closure: a failing row becomes a null row.
unary_closure_nulls_failures(x) ==
  IF x = None \/ ~op1(unwrap(x)).ok THEN Ok(None) ELSE Ok(Some(op1(unwrap(x)).v))
\* x.map(&op).transpose()
unary_closure(x) == transpose(IF x = None THEN None ELSE Some(op1(unwrap(x))))
\* the calls of op the closure makes for row p
unary_calls(p, x) ==
  IF x = None THEN <<>>
  ELSE <<[pos |-> p, arg |-> 0, x |-> unwrap(x), v |-> 0, r |-> op1(unwrap(x))]>>

\* ---- handle_multiple: the scalar path ----
\* `let ColumnarValue::Scalar(Utf8View(x) | LargeUtf8(x) | Utf8(x)) = v else {..}`
\* Mutant of scalar_text_pattern: any operand of a text encoding matches.
scalar_text_pattern_any_shape(v) == v.data_type \in TextTypes
scalar_text_pattern(v) == v.shape = "Scalar" /\ v.data_type \in TextTypes

\* ---- string_to_datetime_formatted ----
\* Calendar of the model: a date is a day number, a time of day is one of
\* three ticks, a zone written in a text is an offset east of UTC in ticks.
Dates == {-11, 0, 1, 11}
Times == {0, 1, 2}
Offsets == {0, 1}
\* The specifiers a format names and the fields a text writes.
Fields == {"date", "time", "zone"}
\* A text: the fields it writes; a field it does not write is None.
Texts == [date : {None} \cup {Some(d) : d \in Dates},
          time : {None} \cup {Some(t) : t \in Times},
          zone : {None} \cup {Some(z) : z \in Offsets}]
written(s) == {f \in Fields : s[f] # None}
\* The timezones: Utc, and a zone that is one tick ahead of UTC during the
\* instants 1 and 2: local time 1 does not exist in it (gap) and local time 3
\* exists twice (overlap).
TimeZones == {"Utc", "Dst"}
offset_from_utc(tz, u) == IF tz = "Dst" /\ u \in {1, 2} THEN 1 ELSE 0

\* err(err_ctx): DataFusionError::Execution("Error parsing timestamp from ...")
ParseTimestamp(s, fmt, ctx) == [kind |-> "ParseTimestamp", s |-> s, format |-> fmt, ctx |-> ctx]
\* DataFusionError::Execution(ERR_NANOSECONDS_NOT_SUPPORTED)
NanosecondsNotSupported == [kind |-> "NanosecondsNotSupported"]

\* chrono::format::parse(&mut parsed, s, StrftimeItems::new(format)): the
\* text must write the fields the format names, and no other
parse(s, fmt) ==
  IF written(s) = fmt
  THEN Ok([date |-> s.date, time |-> s.time, offset |-> s.zone])
  ELSE Err("Invalid")

\* NaiveDateTime of a date and a time of day, in ticks
and_time(d, t) == d * Cardinality(Times) + t
\* Parsed::to_naive_date
to_naive_date(p) == IF p.date = None THEN Err("NotEnough") ELSE Ok(unwrap(p.date))
\* Parsed::to_naive_datetime_with_offset
to_naive_datetime_with_offset(p, offset) ==
  IF p.date = None \/ p.time = None THEN Err("NotEnough")
  ELSE Ok(and_time(unwrap(p.date), unwrap(p.time)))
\* Parsed::to_datetime: DateTime<FixedOffset>
to_datetime(p) ==
  IF p.offset = None THEN Err("NotEnough")
  ELSE LET ndt == to_naive_datetime_with_offset(p, unwrap(p.offset)) IN
       IF ndt.ok THEN Ok([instant |-> ndt.v - unwrap(p.offset), timezone |-> "Fixed",
                          offset |-> unwrap(p.offset)])
       ELSE ndt
\* From<NaiveDate> for NaiveDateTime: the date at midnight
into(nd) == and_time(nd, 0)

\* TimeZone::from_local_datetime: the DateTimes of tz whose local time is ndt
from_local_datetime(tz, ndt) ==
  {[instant |-> u, timezone |-> tz] :
     u \in {v \in (ndt - 1)..ndt : v + offset_from_utc(tz, v) = ndt}}
\* Mutant of Single: an ambiguous local time resolves to its earliest instant.
Earliest(l) ==
  IF l = {} THEN None
  ELSE Some(CHOOSE e \in l : \A o \in l : e.instant <= o.instant)
\* `if let Single(e) = ...`: Some(e) for LocalResult::Single(e), else None
Single(l) == IF Cardinality(l) = 1 THEN Some(CHOOSE e \in l : TRUE) ELSE None

\* Mutant of with_timezone: the local time is kept and read in the zone tz.
with_timezone_keeping_local(dt, tz) ==
  [instant |-> dt.instant + dt.offset - offset_from_utc(tz, dt.instant), timezone |-> tz]
\* DateTime::with_timezone: the same instant in the zone tz
with_timezone(dt, tz) == [instant |-> dt.instant, timezone |-> tz]

\* one attempted interpretation of the parsed fields, for the log
Tried(name, r) == [interpretation |-> name, ok |-> r.ok]

\* the function: its Result and the interpretations it attempted
string_to_datetime_formatted(tz, s, fmt) ==
  LET parsed == parse(s, fmt) IN
  IF ~parsed.ok
  THEN [r |-> Err(ParseTimestamp(s, fmt, parsed.e)), tried |-> <<>>]
  ELSE
    LET dt == to_datetime(parsed.v) IN
    IF ~dt.ok
    THEN
      LET n1 == to_naive_datetime_with_offset(parsed.v, 0)
          n2 == to_naive_date(parsed.v)
          ndt == IF n1.ok THEN n1
                 ELSE IF n2.ok THEN Ok(into(n2.v)) ELSE n2
          log == <<Tried("to_datetime", dt), Tried("to_naive_datetime_with_offset", n1)>>
                   \o (IF n1.ok THEN <<>> ELSE <<Tried("to_naive_date", n2)>>)
      IN
      IF ~ndt.ok
      THEN [r |-> Err(ParseTimestamp(s, fmt, ndt.e)), tried |-> log]
      ELSE LET e == Single(from_local_datetime(tz, ndt.v)) IN
           IF e # None
           THEN [r |-> Ok(unwrap(e)), tried |-> log]
           ELSE [r |-> Err(ParseTimestamp(s, fmt, dt.e)), tried |-> log]
    ELSE [r |-> Ok(with_timezone(dt.v, tz)),
          tried |-> <<Tried("to_datetime", dt)>>]

\* ---- string_to_timestamp_nanos_formatted / _millis_formatted ----
\* The i64 of the timestamps, scaled to 16 bits, and the sub-units of a tick
\* scaled with it: 10^3 nanoseconds and 10 milliseconds to the tick.
I64_MIN == -(2^15)
I64_MAX == 2^15 - 1
NanosPerTick == 10^3
MillisPerTick == NanosPerTick \div 10^2
\* Mutant of timestamp_nanos_opt: the multiplication wraps around.
timestamp_nanos_wrapping(dt) ==
  Some(((dt.instant * NanosPerTick - I64_MIN) % (I64_MAX - I64_MIN + 1)) + I64_MIN)
\* DateTime::timestamp_nanos_opt: None when the nanoseconds overflow the i64
timestamp_nanos_opt(dt) ==
  IF dt.instant * NanosPerTick \in I64_MIN..I64_MAX
  THEN Some(dt.instant * NanosPerTick)
  ELSE None
\* DateTime::timestamp_millis
timestamp_millis(dt) == dt.instant * MillisPerTick
\* .naive_utc().and_utc(): the same instant, in Utc
naive_utc_and_utc(dt) == [instant |-> dt.instant, timezone |-> "Utc"]

\* ---- initial states ----
\* Operand k of a call is encoded with the k-th text encoding counted from
\* the one drawn for operand 0, so every encoding occurs at every position.
TextTypeSeq == <<"Utf8", "LargeUtf8", "Utf8View">>
Encoding(e, k) == TextTypeSeq[((e + k) % 3) + 1]

AllOperands ==
  UNION {Operands(t, UText \cup PText \cup FText) : t \in TextTypes}

ArgLists(e, n, Text) ==
  {as \in [1..n -> AllOperands] :
     /\ as[1] \in Operands(Encoding(e, 0), Text)
     /\ \A i \in 2..n : as[i] \in Operands(Encoding(e, i - 1), FText)}

Arrays(n, Text) == UNION {[1..m -> PrimaryCell(Text)] : m \in 0..n}

\* Row counts of the auxiliary Arrays of a call whose primary has n rows:
\* nothing in the signature of handle_multiple ties them to n.
AuxRows(n) == {m \in {n - 1, n, n + 1} : m >= 0}

\* slot drawn for an auxiliary the row closure does not read
NotRead == [valid |-> TRUE, value |-> 2]

KernelCalls == {"handle", "handle_multiple"}
ParserCalls == {"string_to_datetime_formatted", "string_to_timestamp_nanos_formatted",
                "string_to_timestamp_millis_formatted"}
\* the text of the calls that are not calls of the parser
NoText == [date |-> None, time |-> None, zone |-> None]

Init ==
  /\ kernel \in KernelCalls \cup ParserCalls \cup {"validate_data_types"}
  /\ IF kernel \notin ParserCalls
     THEN /\ \E e \in 0..2 :
               args \in (IF kernel = "handle" THEN ArgLists(e, 1, UText)
                        ELSE UNION {ArgLists(e, n, PText) : n \in 1..MaxArgs})
          /\ first \in (IF /\ kernel \in KernelCalls
                           /\ args[1].shape = "Array" /\ args[1].data_type \in TextTypes
                        THEN Arrays(MaxRows, IF kernel = "handle" THEN UText ELSE PText)
                        ELSE {<<>>})
          /\ aux_rows \in (IF /\ kernel = "handle_multiple"
                              /\ args[1].shape = "Array"
                              /\ validate_column_types(args, 0) = None
                              /\ \E k \in 2..Len(args) : args[k].shape = "Array"
                           THEN AuxRows(Len(first)) ELSE {Len(first)})
          /\ str = NoText /\ format = {} /\ timezone = "Utc"
     ELSE /\ args = <<>> /\ first = <<>> /\ aux_rows = 0
          /\ str \in Texts
          /\ format \in SUBSET Fields
          /\ timezone \in (IF kernel = "string_to_datetime_formatted" THEN TimeZones
                           ELSE {"Utc"})
  /\ pc = "start"
  /\ pos = 0
  /\ ret = None
  /\ out = <<>>
  /\ aux_reads = <<>>
  /\ op_calls = <<>>
  /\ op2_calls = <<>>
  /\ op_count = 0
  /\ tried = <<>>
  /\ result = Pending

Return(r) == result' = r /\ pc' = "done"

\* ---- handle ----
handle ==
  /\ pc = "start"
  /\ kernel = "handle"
  /\ UNCHANGED <<kernel, args, first, aux_rows, str, format, timezone,
               tried, pos, ret, out, aux_reads, op2_calls>>
  /\ LET a == Operand(args, 0) IN
       IF a.shape = "Array"
       THEN IF a.data_type \in TextTypes
            THEN pc' = "unary" /\ UNCHANGED <<result, op_calls, op_count>>
            ELSE Return(Error(UnsupportedType0(a.data_type))) /\ UNCHANGED <<op_calls, op_count>>
       ELSE IF try_as_str(a) = None
            THEN Return(Error(UnsupportedType0(a.data_type))) /\ UNCHANGED <<op_calls, op_count>>
            ELSE LET s == unwrap(try_as_str(a))
                     r == unary_closure(s)
                 IN /\ op_calls' = unary_calls(0, s)
                    /\ op_count' = op_count + Len(unary_calls(0, s))
                    /\ Return(IF r.ok THEN OkScalar(r.v) ELSE Error(r.e))

\* one row of unary_string_to_primitive_function; collect() stops at the first Err
unary_string_to_primitive_function ==
  /\ pc = "unary"
  /\ pos < Len(first)
  /\ LET x == first[pos + 1]
         r == unary_closure(x)
     IN /\ op_calls' = unary_calls(pos, x)
        /\ op_count' = op_count + Len(unary_calls(pos, x))
        /\ IF r.ok
           THEN out' = Append(out, r.v) /\ pos' = pos + 1 /\ UNCHANGED <<pc, result>>
           ELSE Return(Error(r.e)) /\ UNCHANGED <<out, pos>>
  /\ UNCHANGED <<kernel, args, first, aux_rows, str, format, timezone,
               tried, ret, aux_reads, op2_calls>>

\* ---- handle_multiple ----
handle_multiple ==
  /\ pc = "start"
  /\ kernel = "handle_multiple"
  /\ UNCHANGED <<kernel, args, first, aux_rows, str, format, timezone,
               ret, out, aux_reads, op_calls, op2_calls, op_count, tried>>
  /\ LET a == Operand(args, 0) IN
       IF a.shape = "Array"
       THEN IF a.data_type \in TextTypes
            THEN IF validate_column_types(args, 0) # None
                 THEN Return(Error(unwrap(validate_column_types(args, 0)))) /\ UNCHANGED pos
                 ELSE IF strings_to_primitive_function(args) # None
                      THEN Return(Error(unwrap(strings_to_primitive_function(args))))
                           /\ UNCHANGED pos
                      ELSE pc' = "array_op" /\ UNCHANGED <<result, pos>>
            ELSE Return(Error(UnsupportedType0(a.data_type))) /\ UNCHANGED pos
       ELSE IF try_as_str(a) = None
            THEN Return(Error(UnsupportedType0(a.data_type))) /\ UNCHANGED pos
            ELSE IF unwrap(try_as_str(a)) = None
                 THEN Return(Error(Internal)) /\ UNCHANGED pos
                 ELSE pc' = "scalar" /\ pos' = 1 /\ UNCHANGED result

\* one iteration of `for (pos, v) in args.iter().enumerate().skip(1)`
handle_multiple_scalar ==
  /\ pc = "scalar"
  /\ pos < Len(args)
  /\ UNCHANGED <<kernel, args, first, aux_rows, str, format, timezone, tried, out>>
  /\ LET a == unwrap(Operand(args, 0).value)
         v == Operand(args, pos)
     IN /\ aux_reads' = Append(aux_reads, [pos |-> 0, arg |-> pos, null |-> v.value = None])
        /\ IF ~scalar_text_pattern(v)
           THEN Return(Error(UnsupportedType(v.data_type, pos)))
                /\ UNCHANGED <<pos, ret, op_calls, op2_calls, op_count>>
           ELSE IF v.value = None
                THEN pos' = pos + 1
                     /\ UNCHANGED <<pc, result, ret, op_calls, op2_calls, op_count>>
                ELSE LET r == op(a, unwrap(v.value)) IN
                     /\ op_calls' = Append(op_calls, [pos |-> 0, arg |-> pos, x |-> a,
                                                      v |-> unwrap(v.value), r |-> r])
                     /\ op_count' = op_count + 1
                     /\ ret' = attempt(r)
                     /\ op2_calls' = op2_calls \o op2_called(r)
                     /\ IF break(r) THEN pc' = "scalar_break" /\ UNCHANGED pos
                        ELSE pos' = pos + 1 /\ UNCHANGED pc
                     /\ UNCHANGED result

\* Mutant of unwrap_or_internal_err: an absent value becomes a default value.
unwrap_or_default(o) == IF o = None THEN Ok(Ok(0)) ELSE Ok(unwrap(o))
\* unwrap_or_internal_err!(o)
unwrap_or_internal_err(o) == IF o = None THEN Err(Internal) ELSE Ok(unwrap(o))

\* `let ret = unwrap_or_internal_err!(ret); ret` after the loop
handle_multiple_scalar_return ==
  /\ pc = "scalar_break" \/ (pc = "scalar" /\ pos >= Len(args))
  /\ LET u == unwrap_or_internal_err(ret) IN
       Return(IF ~u.ok THEN Error(u.e)
              ELSE IF u.v.ok THEN OkScalar(Some(u.v.v))
              ELSE Error(u.v.e))
  /\ UNCHANGED <<kernel, args, first, aux_rows, str, format, timezone,
               pos, ret, out, aux_reads, op_calls, op2_calls, op_count, tried>>

\* what one run of the row closure, ended in state st with result r, leaves
\* behind: the logs, and the next item of collect() or the end of the call
handle_array_op_row(st, r, cells) ==
  /\ \A j \in 1..(Len(args) - 1) :
       cells[j] # NotRead => \E i \in 1..Len(st.reads) : st.reads[i].arg = j
  /\ aux_reads' = st.reads
  /\ op_calls' = st.ops
  /\ op2_calls' = st.op2s
  /\ op_count' = op_count + Len(st.ops)
  /\ IF st.panic
     THEN Return(Panic) /\ UNCHANGED <<out, pos>>
     ELSE IF r.ok
          THEN out' = Append(out, r.v) /\ pos' = pos + 1 /\ UNCHANGED <<pc, result>>
          ELSE Return(Error(r.e)) /\ UNCHANGED <<out, pos>>
handle_array_op_closure(st, cells) == handle_array_op_row(st, row_result(st), cells)

\* one row of handle_array_op; collect() stops at the first Err
handle_array_op ==
  /\ pc = "array_op"
  /\ pos < Len(first)
  /\ \E cells \in [1..(Len(args) - 1) -> AuxCell] :
       /\ \A j \in 1..(Len(args) - 1) :
            (Operand(args, j).shape # "Array" \/ first[pos + 1] = None \/ pos >= aux_rows)
              => cells[j] = NotRead
       /\ handle_array_op_closure(row_closure(pos, first[pos + 1], cells), cells)
  /\ UNCHANGED <<kernel, args, first, aux_rows, str, format, timezone, tried, ret>>

\* the iterator is exhausted: collect() returns the column
collect ==
  /\ pc \in {"unary", "array_op"}
  /\ pos >= Len(first)
  /\ Return(OkArray(out))
  /\ UNCHANGED <<kernel, args, first, aux_rows, str, format, timezone,
               pos, ret, out, aux_reads, op_calls, op2_calls, op_count, tried>>

\* ---- the temporal parser and its conversions ----
\* what the parser calls leave alone
parser_unchanged ==
  UNCHANGED <<kernel, args, first, aux_rows, str, format, timezone,
              pos, ret, out, aux_reads, op_calls, op2_calls, op_count>>

call_string_to_datetime_formatted ==
  /\ pc = "start"
  /\ kernel = "string_to_datetime_formatted"
  /\ LET c == string_to_datetime_formatted(timezone, str, format) IN
       /\ tried' = c.tried
       /\ Return(IF c.r.ok THEN OkDateTime(c.r.v) ELSE Error(c.r.e))
  /\ parser_unchanged

string_to_timestamp_nanos_formatted ==
  /\ pc = "start"
  /\ kernel = "string_to_timestamp_nanos_formatted"
  /\ LET c == string_to_datetime_formatted("Utc", str, format) IN
       /\ tried' = c.tried
       /\ Return(IF ~c.r.ok THEN Error(c.r.e)
                 ELSE LET n == timestamp_nanos_opt(naive_utc_and_utc(c.r.v)) IN
                      IF n = None THEN Error(NanosecondsNotSupported)
                      ELSE OkNative(unwrap(n)))
  /\ parser_unchanged

string_to_timestamp_millis_formatted ==
  /\ pc = "start"
  /\ kernel = "string_to_timestamp_millis_formatted"
  /\ LET c == string_to_datetime_formatted("Utc", str, format) IN
       /\ tried' = c.tried
       /\ Return(IF ~c.r.ok THEN Error(c.r.e)
                 ELSE OkNative(timestamp_millis(naive_utc_and_utc(c.r.v))))
  /\ parser_unchanged

\* ---- validate_data_types ----
call_validate_data_types ==
  /\ pc = "start"
  /\ kernel = "validate_data_types"
  /\ LET c == validate_data_types(args, 0, <<>>) IN
       /\ aux_reads' = [k \in 1..Len(c.inspected) |->
                          [pos |-> 0, arg |-> c.inspected[k], null |-> FALSE]]
       /\ Return(IF c.r.ok THEN OkUnit ELSE Error(c.r.e))
  /\ UNCHANGED <<kernel, args, first, aux_rows, str, format, timezone,
                 pos, ret, out, op_calls, op2_calls, op_count, tried>>

Next ==
  \/ handle
  \/ unary_string_to_primitive_function
  \/ handle_multiple
  \/ handle_multiple_scalar
  \/ handle_multiple_scalar_return
  \/ handle_array_op
  \/ collect
  \/ call_string_to_datetime_formatted
  \/ string_to_timestamp_nanos_formatted
  \/ string_to_timestamp_millis_formatted
  \/ call_validate_data_types

Spec == Init /\ [][Next]_vars

\* ---------------------------------------------------------------------
\* Properties
\* ---------------------------------------------------------------------
IsText(a) == a.data_type \in TextTypes
ArrayPath == kernel = "handle_multiple" /\ args[1].shape = "Array" /\ IsText(args[1])
ScalarPath == kernel = "handle_multiple" /\ args[1].shape = "Scalar" /\ IsText(args[1])
Last(q) == q[Len(q)]
\* positions of the operands that are not of a text encoding
Offenders == {p \in 0..(Len(args) - 1) : ~IsText(Operand(args, p))}
FirstOffender == CHOOSE p \in Offenders : \A q \in Offenders : p <= q

\* C1 (as claimed): in a successful call of the fallback kernel on an Array
\* primary, output row i is null if and only if the primary is null at row i.
C1_NullIffPrimaryNull ==
  (ArrayPath /\ result.tag = "Ok") =>
    \A i \in 1..Len(result.column) : (result.column[i] = None) <=> (first[i] = None)

\* C2 (as claimed): in handle_array_op an auxiliary that is null at the row
\* (null slot of an Array, or null Scalar) is skipped: op is not called for it.
C2_NullAuxiliarySkipped ==
  ArrayPath =>
    \A i \in 1..Len(aux_reads) :
      aux_reads[i].null => \A k \in 1..Len(op_calls) : op_calls[k].arg # aux_reads[i].arg

\* C3: fallback is left-to-right and first-success-wins in the array path and
\* in the scalar path: the calls of op for one primary value go through the
\* auxiliaries in increasing position, only the last of them can succeed (no
\* call follows a success), and the value accepted for the primary is op2 of
\* that first success.
C3_FirstSuccessWins ==
  kernel = "handle_multiple" =>
    /\ \A k \in 1..(Len(op_calls) - 1) :
         ~op_calls[k].r.ok /\ op_calls[k].arg < op_calls[k + 1].arg
    /\ \A k \in 1..Len(op_calls) :
         /\ op_calls[k].arg \in 1..(Len(args) - 1)
         /\ Some(op_calls[k].x) = (IF ArrayPath THEN first[op_calls[k].pos + 1]
                                   ELSE args[1].value)
    /\ (ArrayPath /\ op_calls # <<>> /\ Last(op_calls).r.ok) =>
         out[Last(op_calls).pos + 1] = Some(op2(Last(op_calls).r.v))
    /\ (ArrayPath /\ (pc = "array_op" \/ result.tag = "Ok") /\ out # <<>> /\ Last(out) # None) =>
         (op_calls # <<>> /\ Last(op_calls).r.ok)
    /\ (ScalarPath /\ pc = "done" /\ op_calls # <<>> /\ Last(op_calls).r.ok) =>
         result = OkScalar(Some(op2(Last(op_calls).r.v)))
    /\ (ScalarPath /\ result.tag = "Ok") =>
         (op_calls # <<>> /\ Last(op_calls).r.ok)

\* C3 witness: the first candidate succeeded, a second, non-null candidate
\* exists and was not offered to op.
C3_Witness ==
  /\ ArrayPath /\ Len(args) = 3 /\ pc = "done" /\ result.tag = "Ok"
  /\ Len(op_calls) = 1 /\ op_calls[1].arg = 1 /\ op_calls[1].r.ok
  /\ Operand(args, 2).shape = "Scalar" /\ Operand(args, 2).value # None

\* C4 (as claimed): when every attempted candidate fails for a non-null
\* primary value, the call returns the failure of the last attempted candidate.
C4_LastFailureIsCallError ==
  (kernel = "handle_multiple" /\ pc = "done" /\ op_calls # <<>>
     /\ \A k \in 1..Len(op_calls) : ~op_calls[k].r.ok) =>
    (result.tag = "Err" /\ result.err = Last(op_calls).r.e)

\* C5 (as claimed): type validation is eager whether operand 0 is an Array or
\* a Scalar: a call with an operand that is not of a text encoding returns the
\* unsupported-type error of the first offending position without any call of op.
C5_EagerTypeValidation ==
  (kernel = "handle_multiple" /\ Offenders # {}) =>
    /\ op_count = 0
    /\ pc = "done" =>
         /\ result.tag = "Err"
         /\ result.err.kind = "UnsupportedType"
         /\ result.err.data_type = Operand(args, FirstOffender).data_type
         /\ result.err.arg = FirstOffender \/ (FirstOffender = 0 /\ result.err.arg = -1)

\* C6 (as claimed): every call of handle_multiple with fewer than 2 operands
\* returns the argument-count error with the count received and the minimum
\* 2, whether operand 0 is an Array or a Scalar (of a text encoding).
C6_ArgumentCount ==
  (kernel = "handle_multiple" /\ Len(args) < 2 /\ IsText(args[1]) /\ pc = "done") =>
    result = Error(ArgumentCount(Len(args)))

\* C7: for a null row i of an Array primary, in the unary kernel and in the
\* fallback kernel, the row closure calls op for no auxiliary, reads no
\* auxiliary, and its output for row i is null.
C7_NullRowNoAttempt ==
  \A i \in 1..Len(first) :
    first[i] = None =>
      /\ \A k \in 1..Len(op_calls) : op_calls[k].pos # i - 1
      /\ \A k \in 1..Len(aux_reads) : aux_reads[k].pos # i - 1
      /\ (pc \in {"unary", "array_op"} /\ pos >= i) => (Len(out) >= i /\ out[i] = None)
      /\ i <= Len(out) => out[i] = None
      /\ result.tag = "Ok" => result.column[i] = None

\* C7 witness: the fallback kernel has run the closure for a non-null row and
\* then for a null row, with an auxiliary Array present.
C7_Witness ==
  /\ ArrayPath /\ pc = "array_op" /\ pos = 2
  /\ first[1] # None /\ first[2] = None
  /\ Operand(args, 1).shape = "Array"
  /\ out[2] = None /\ op_calls = <<>> /\ aux_reads = <<>> /\ op_count > 0

\* rows of the primary on which the unary op fails
FailingRows == {i \in 1..Len(first) : first[i] # None /\ ~op1(unwrap(first[i])).ok}

\* C8: the unary kernel on a text Array of N rows returns an error iff op fails
\* on some non-null row, the error of the lowest such row; otherwise a column
\* of exactly N entries, null exactly at the null rows.
C8_UnaryAllOrNothing ==
  (kernel = "handle" /\ args[1].shape = "Array" /\ IsText(args[1]) /\ pc = "done") =>
    IF FailingRows = {}
    THEN /\ result.tag = "Ok" /\ result.shape = "Array"
         /\ Len(result.column) = Len(first)
         /\ \A i \in 1..Len(first) : (result.column[i] = None) <=> (first[i] = None)
    ELSE LET low == CHOOSE i \in FailingRows : \A j \in FailingRows : i <= j
         IN result = Error(op1(unwrap(first[low])).e)

\* C8 witness: two rows fail with different errors; the call failed.
C8_Witness ==
  /\ kernel = "handle" /\ pc = "done" /\ Len(first) = 2
  /\ FailingRows = {1, 2} /\ first[1] # first[2]
  /\ result.tag = "Err"

\* C9: with a text Array as operand 0 and an operand at position >= 1 that is
\* not of a text encoding, handle_multiple returns the unsupported-type error
\* naming the first such position and op is never called, for no row.
C9_TypeViolationBeforeRows ==
  (ArrayPath /\ Offenders # {}) =>
    /\ op_count = 0 /\ op_calls = <<>> /\ out = <<>> /\ pc \in {"start", "done"}
    /\ pc = "done" =>
         result = Error(UnsupportedType(Operand(args, FirstOffender).data_type, FirstOffender))

\* C9 witness: row 0 is non-null, operand 1 is a usable candidate, operand 2
\* is not text: the call has failed naming position 2.
C9_Witness ==
  /\ ArrayPath /\ pc = "done" /\ Len(args) = 3
  /\ Len(first) >= 1 /\ first[1] # None
  /\ Operand(args, 1).shape = "Scalar" /\ Operand(args, 1).value # None
  /\ Offenders = {2}
  /\ result.tag = "Err" /\ result.err.arg = 2

\* C10 (as claimed): a successful result is a column iff some operand is an
\* Array, and handle_multiple with a non-null Scalar operand 0 and text
\* operands of which one is an Array produces a column, not an error.
C10_ShapeFollowsAnyArray ==
  (kernel \in KernelCalls /\ pc = "done") =>
    /\ result.tag = "Ok" =>
         ((result.shape = "Array") <=> (\E k \in 1..Len(args) : args[k].shape = "Array"))
    /\ (ScalarPath /\ args[1].value # None /\ Offenders = {}
          /\ \E k \in 2..Len(args) : args[k].shape = "Array") =>
         (result.tag = "Ok" /\ result.shape = "Array")

\* C10 (amended): a successful result has the shape of operand 0: a column
\* with one entry per row of operand 0 when it is an Array, a single Scalar
\* when it is a Scalar; handle_multiple with a Scalar operand 0 whose loop
\* reaches an Array auxiliary returns the unsupported-type error of that position.
C10_ShapeFollowsOperand0 ==
  (kernel \in KernelCalls /\ pc = "done") =>
    /\ result.tag = "Ok" =>
         IF args[1].shape = "Array"
         THEN result.shape = "Array" /\ Len(result.column) = Len(first)
         ELSE result.shape = "Scalar"
    /\ (ScalarPath /\ aux_reads # <<>> /\ Operand(args, Last(aux_reads).arg).shape = "Array") =>
         result = Error(UnsupportedType(Operand(args, Last(aux_reads).arg).data_type,
                                        Last(aux_reads).arg))

\* C10 witness: Scalar operand 0, a failed Scalar candidate, then a text Array.
C10_Witness ==
  /\ ScalarPath /\ pc = "done" /\ Len(args) = 3 /\ Offenders = {}
  /\ Operand(args, 2).shape = "Array"
  /\ op_count = 1 /\ result.tag = "Err" /\ result.err.kind = "UnsupportedType"

\* C11 (as claimed): with an Array as operand 0, a call of handle_multiple
\* with an auxiliary Array whose row count differs from that of operand 0 is
\* rejected with an error, and no auxiliary Array is asked for a slot at an
\* index at or beyond its row count.
C11_AuxRowCountValidated ==
  (ArrayPath /\ Offenders = {} /\ aux_rows # Len(first)
     /\ \E k \in 2..Len(args) : args[k].shape = "Array") =>
    /\ pc = "done" => result.tag = "Err"
    /\ \A i \in 1..Len(aux_reads) :
         Operand(args, aux_reads[i].arg).shape = "Array" => aux_reads[i].pos < aux_rows

\* every operand of the call is a Scalar of a text encoding
AllTextScalars == \A k \in 1..Len(args) : args[k].shape = "Scalar" /\ IsText(args[k])
\* the subject is null, or every candidate is
NothingToAttempt == args[1].value = None \/ \A k \in 2..Len(args) : args[k].value = None

\* C12: in the scalar path of handle_multiple with text Scalar operands only,
\* the call returns the internal error exactly when the subject is null or
\* every candidate is null; op is then never called; the call never returns
\* a null Scalar.
C12_ScalarPathInternalError ==
  (kernel = "handle_multiple" /\ AllTextScalars) =>
    /\ pc = "done" => ((result = Error(Internal)) <=> NothingToAttempt)
    /\ NothingToAttempt => (op_count = 0 /\ op_calls = <<>> /\ op2_calls = <<>>)
    /\ result.tag = "Ok" => (result.shape = "Scalar" /\ result.value # None)

\* C12 witness: a non-null subject whose two candidates are null; the loop
\* consulted both and the call returned the internal error.
C12_Witness ==
  /\ kernel = "handle_multiple" /\ AllTextScalars /\ Len(args) = 3
  /\ args[1].value # None /\ args[2].value = None /\ args[3].value = None
  /\ pc = "done" /\ Len(aux_reads) = 2 /\ result = Error(Internal)

\* the local date-time a text without a zone denotes: its date at its time
\* of day, at midnight when it writes no time
LocalTime == and_time(unwrap(str.date), IF str.time = None THEN 0 ELSE unwrap(str.time))
\* the instants at which the clocks of tz show the local time n
InstantsAt(tz, n) == {u \in (n - 1)..n : u + offset_from_utc(tz, u) = n}
\* a parser call whose text matches the format, writes a date and no zone
Localized ==
  /\ kernel = "string_to_datetime_formatted" /\ pc = "done"
  /\ written(str) = format /\ str.zone = None /\ str.date # None

\* C13: a text without a zone, localized into the target timezone, succeeds
\* only if its local time is exactly one instant there, and then returns
\* that instant; a local time of no instant (gap) or of two (overlap)
\* returns a parse error, never an instant.
C13_LocalizationSingleOrError ==
  Localized =>
    /\ (result.tag = "Ok") <=> (Cardinality(InstantsAt(timezone, LocalTime)) = 1)
    /\ result.tag = "Ok" =>
         /\ result.value.instant \in InstantsAt(timezone, LocalTime)
         /\ result.value.timezone = timezone
    /\ Cardinality(InstantsAt(timezone, LocalTime)) # 1 =>
         (result.tag = "Err" /\ result.err.kind = "ParseTimestamp")

\* C13 witness: a date-only text whose midnight falls in the overlap of the
\* target timezone: the call returned a parse error.
C13_Witness ==
  /\ Localized /\ timezone = "Dst" /\ str.time = None
  /\ Cardinality(InstantsAt(timezone, LocalTime)) = 2
  /\ result.tag = "Err"

\* a conversion call whose text the parser accepts: it matches the format
\* and writes a date
ParsedOk == written(str) = format /\ str.date # None
\* the instant such a text denotes for the conversions: its absolute instant
\* when it carries a zone (and a time), else its local time read in Utc
ParsedInstant ==
  IF str.zone # None /\ str.time # None
  THEN and_time(unwrap(str.date), unwrap(str.time)) - unwrap(str.zone)
  ELSE LocalTime

\* C14: for a text the parser accepts, string_to_timestamp_nanos_formatted
\* returns the range error exactly when the nanoseconds of the instant do not
\* fit the i64, and the nanoseconds otherwise; string_to_timestamp_millis_
\* formatted returns the milliseconds of the same instant and never the
\* range error.
C14_NanosRangeMillisNone ==
  /\ (kernel = "string_to_timestamp_nanos_formatted" /\ pc = "done" /\ ParsedOk) =>
       IF ParsedInstant * NanosPerTick \in I64_MIN..I64_MAX
       THEN result = OkNative(ParsedInstant * NanosPerTick)
       ELSE result = Error(NanosecondsNotSupported)
  /\ (kernel = "string_to_timestamp_nanos_formatted" /\ pc = "done" /\ ~ParsedOk) =>
       (result.tag = "Err" /\ result.err.kind = "ParseTimestamp")
  /\ (kernel = "string_to_timestamp_millis_formatted" /\ pc = "done") =>
       IF ParsedOk
       THEN result = OkNative(ParsedInstant * MillisPerTick)
       ELSE result.tag = "Err" /\ result.err.kind = "ParseTimestamp"

\* C14 witness: the earliest instant of the calendar, one tick before the
\* first one whose nanoseconds fit: the nanosecond conversion has returned
\* the range error.
C14_Witness ==
  /\ kernel = "string_to_timestamp_nanos_formatted" /\ pc = "done" /\ ParsedOk
  /\ (ParsedInstant + 1) * NanosPerTick \in I64_MIN..I64_MAX
  /\ ParsedInstant * NanosPerTick < I64_MIN
  /\ result = Error(NanosecondsNotSupported)

\* C15: handle on a Scalar operand: a null text Scalar gives a null Scalar
\* result without any call of op; a non-null text Scalar gives exactly one
\* call of op, on its text, and the value or the error of that call; a Scalar
\* that is not text gives the unsupported-type error without any call of op.
C15_UnaryScalar ==
  (kernel = "handle" /\ args[1].shape = "Scalar" /\ pc = "done") =>
    IF ~IsText(args[1])
    THEN result = Error(UnsupportedType0(args[1].data_type)) /\ op_count = 0
    ELSE IF args[1].value = None
         THEN result = OkScalar(None) /\ op_count = 0 /\ op_calls = <<>>
         ELSE /\ op_count = 1 /\ Len(op_calls) = 1
              /\ op_calls[1].x = unwrap(args[1].value)
              /\ op_calls[1].r = op1(unwrap(args[1].value))
              /\ result = (IF op_calls[1].r.ok THEN OkScalar(Some(op_calls[1].r.v))
                           ELSE Error(op_calls[1].r.e))

\* C15 witness: a non-null text Scalar on which op fails: one call of op, and
\* its error is the error of the call.
C15_Witness ==
  /\ kernel = "handle" /\ args[1].shape = "Scalar" /\ pc = "done"
  /\ IsText(args[1]) /\ args[1].value # None
  /\ op_count = 1 /\ result.tag = "Err" /\ result.err.kind = "ParseFailure"

\* the interpretations of the parsed fields, in the order they are tried
Interpretations == <<"to_datetime", "to_naive_datetime_with_offset", "to_naive_date">>
\* the text writes a zone, a date and a time: an absolute date-time
ZoneCarrying == str.zone # None /\ str.date # None /\ str.time # None

\* C16: for a text that matches its format, the parser tries the zone-carrying
\* interpretation, then the naive date-time, then the date at midnight; each
\* is tried only after every earlier one has failed and nothing is tried
\* after a success.  When the zone-carrying interpretation succeeds nothing
\* else is tried and the call returns the absolute instant of the text in
\* the target timezone, whatever local time that is there.
C16_InterpretationOrder ==
  (kernel \in ParserCalls /\ pc = "done" /\ written(str) = format) =>
    /\ Len(tried) \in 1..3
    /\ \A k \in 1..Len(tried) : tried[k].interpretation = Interpretations[k]
    /\ \A k \in 1..(Len(tried) - 1) : ~tried[k].ok
    /\ Len(tried) < 3 => Last(tried).ok
    /\ tried[1].ok <=> ZoneCarrying
    /\ Len(tried) >= 2 => (tried[2].ok <=> (str.date # None /\ str.time # None))
    /\ Len(tried) = 3 => (tried[3].ok <=> str.date # None)
    /\ (ZoneCarrying /\ kernel = "string_to_datetime_formatted") =>
         /\ tried = <<Tried(Interpretations[1], Ok(0))>>
         /\ result = OkDateTime([instant |-> and_time(unwrap(str.date), unwrap(str.time))
                                              - unwrap(str.zone),
                                 timezone |-> timezone])

\* C16 witness: a zone-carrying text whose date and time, read as a local
\* time of the target timezone, would fall in its gap or in its overlap:
\* the call succeeded at the first interpretation.
C16_Witness ==
  /\ kernel = "string_to_datetime_formatted" /\ pc = "done" /\ written(str) = format
  /\ ZoneCarrying /\ timezone = "Dst" /\ unwrap(str.zone) = 1
  /\ Cardinality(InstantsAt(timezone, and_time(unwrap(str.date), unwrap(str.time)))) # 1
  /\ Len(tried) = 1 /\ result.tag = "Ok"

\* the auxiliaries of the call are Scalars: what a row does is then a
\* function of the primary alone
ScalarAuxiliaries == \A k \in 2..Len(args) : args[k].shape = "Scalar"
\* positions of the non-null candidates
Candidates == {j \in 1..(Len(args) - 1) : Operand(args, j).value # None}
\* rows (1-based) on which every candidate fails, and there is one
ExhaustedRows ==
  {i \in 1..Len(first) :
     /\ first[i] # None /\ Candidates # {}
     /\ \A j \in Candidates : ~op(unwrap(first[i]), unwrap(Operand(args, j).value)).ok}
LastCandidate == CHOOSE j \in Candidates : \A k \in Candidates : k <= j

\* C17 (state part): in the array path the rows below `pos` have produced
\* their output, the calls of op in the log are those of the one row just
\* processed, a failed last attempt ends the call at that row with the error
\* of that attempt, and with Scalar auxiliaries the call fails iff some row
\* exhausts its candidates, at the lowest such row, with the failure of its
\* last candidate.
C17_RowsInOrderInv ==
  (ArrayPath /\ Offenders = {}) =>
    /\ Len(out) = pos
    /\ \A k \in 1..Len(op_calls) :
         op_calls[k].pos = (IF result.tag \in {"Err", "Panic"} THEN pos ELSE pos - 1)
    /\ (op_calls # <<>> /\ ~Last(op_calls).r.ok /\ result # Panic) =>
         (pc = "done" /\ result = Error(Last(op_calls).r.e))
    /\ (pc = "done" /\ result.tag = "Err" /\ result.err.kind = "ParseFailure") =>
         (op_calls # <<>> /\ result.err = Last(op_calls).r.e)
    /\ (pc = "done" /\ ScalarAuxiliaries /\ Len(args) >= 2) =>
         IF ExhaustedRows = {}
         THEN result.tag = "Ok"
         ELSE LET low == CHOOSE i \in ExhaustedRows : \A j \in ExhaustedRows : i <= j
              IN /\ pos = low - 1
                 /\ result = Error(op(unwrap(first[low]),
                                      unwrap(Operand(args, LastCandidate).value)).e)

\* C17 (step part): a step of the array path runs the closure of row `pos`
\* and of no other row, then goes to row pos + 1 or ends the call; after the
\* last row the call ends without a call of op; once the call has ended op
\* is not called again.
C17_RowsInOrderStep ==
  /\ (ArrayPath /\ pc = "array_op" /\ pos < Len(first)) =>
       /\ \A k \in 1..Len(op_calls') : op_calls'[k].pos = pos
       /\ \/ pc' = "array_op" /\ pos' = pos + 1 /\ Len(out') = Len(out) + 1
          \/ pc' = "done" /\ pos' = pos /\ out' = out
  /\ (ArrayPath /\ pc = "array_op" /\ pos >= Len(first)) =>
       (pc' = "done" /\ result'.tag = "Ok" /\ op_count' = op_count)
  /\ pc = "done" => op_count' = op_count

\* C17: rows are processed in increasing index order, the first row whose
\* fallback chain is exhausted ends the call with the failure of its last
\* candidate, and op is not called for any later row.
C17_RowsInOrder == []C17_RowsInOrderInv /\ [][C17_RowsInOrderStep]_vars

\* C17 witness: row 0 was accepted, row 1 has exhausted two candidates with
\* different failures: the call has ended there with the second failure.
C17_Witness ==
  /\ ArrayPath /\ pc = "done" /\ pos = 1 /\ Len(first) = 2 /\ Len(out) = 1
  /\ out[1] # None /\ Len(op_calls) = 2
  /\ op_calls[1].r # op_calls[2].r
  /\ result = Error(op_calls[2].r.e)

\* C18: in both paths of handle_multiple, op2 is called once for a primary
\* value that has a successful candidate, on the result of that candidate,
\* and the value accepted is what it returns; it is not called for a null
\* row, for a failed attempt, or for a value whose candidates all fail; the
\* calls of op for one primary value are at most as many as the auxiliaries.
C18_Op2OnAcceptedOnly ==
  kernel = "handle_multiple" =>
    /\ op2_calls = (IF op_calls # <<>> /\ Last(op_calls).r.ok
                    THEN <<Last(op_calls).r.v>> ELSE <<>>)
    /\ Cardinality({k \in 1..Len(op_calls) : op_calls[k].r.ok}) = Len(op2_calls)
    /\ Len(op_calls) <= Len(args) - 1
    /\ (ArrayPath /\ pc = "array_op" /\ pos >= 1 /\ first[pos] = None) =>
         (op_calls = <<>> /\ op2_calls = <<>>)
    /\ (ArrayPath /\ op2_calls # <<>>) =>
         out[Last(op_calls).pos + 1] = Some(op2(op2_calls[1]))
    /\ (ScalarPath /\ pc = "done" /\ op2_calls # <<>>) =>
         result = OkScalar(Some(op2(op2_calls[1])))
    /\ (pc = "done" /\ result.tag = "Err") => op2_calls = <<>>

\* C18 witness: a row whose first candidate failed and whose second was
\* accepted: two calls of op, one call of op2, on the second result.
C18_Witness ==
  /\ ArrayPath /\ pc = "array_op" /\ pos >= 1
  /\ Len(op_calls) = 2 /\ ~op_calls[1].r.ok /\ op_calls[2].r.ok
  /\ op2_calls = <<op_calls[2].r.v>>
  /\ out[pos] = Some(op2(op_calls[2].r.v))

\* positions from 1 on of the operands that are not of a text encoding
LaterOffenders == Offenders \ {0}

\* C19: validate_data_types inspects the operands at positions 1, 2, ... in
\* this order, up to the first that is not of a text encoding, and never
\* operand 0; it returns the unsupported-type error iff there is such an
\* operand, with its type and its 0-based position in the operand list;
\* otherwise it returns Ok.
C19_ValidateFromSecond ==
  (kernel = "validate_data_types" /\ pc = "done") =>
    /\ \A k \in 1..Len(aux_reads) : aux_reads[k].arg = k
    /\ IF LaterOffenders = {}
       THEN result = OkUnit /\ Len(aux_reads) = Len(args) - 1
       ELSE LET low == CHOOSE p \in LaterOffenders : \A q \in LaterOffenders : p <= q
            IN /\ result = Error(UnsupportedIndex(Operand(args, low).data_type, low))
               /\ Len(aux_reads) = low

\* C19 witness: operand 0 and operand 2 are not text, operand 1 is: the
\* error names position 2.
C19_Witness ==
  /\ kernel = "validate_data_types" /\ pc = "done"
  /\ Offenders = {0, 2}
  /\ result.tag = "Err" /\ result.err.index = 2

====
